---------------------------- MODULE Spec2Model ----------------------------
(***************************************************************************)
(* A model of the record handler of deepstream.io                          *)
(* (src/src/record/record-handler.ts): the dispatcher, the upsert and      *)
(* hot-path write, create-or-read, the versioned update through a record   *)
(* transition, deletion and the stability gate.                            *)
(*                                                                         *)
(* RecordTransition, recordRequest, RecordDeletion and isExcluded are      *)
(* imported by the handler but are not part of src/; they are modelled     *)
(* from spec.md (sections 4.3, 4.5 and 4.8).                               *)
(***************************************************************************)
EXTENDS Integers, Sequences, FiniteSets, TLC

\* ------------------------------------------------------------------ bounds
\* Number of inbound messages handled in one behaviour.
MaxRequests == 2
\* Largest version number a client message carries.
MaxVersion == 2
\* Number of callbacks handed to the stability gate in one behaviour.
MaxCallbacks == 3

\* --------------------------------------------------------------- constants
\* The race of an upsert with a completing transition takes one message
\* more: RaceSpec handles MaxRequests + 1 messages of a narrow kind.
Requests == 1..(MaxRequests + 1)
NoTransition == 0
NoVersion == -2      \* message.version is undefined
NoRecord == [_v |-> -1, _d |-> -1]   \* null: the record does not exist
EmptyData == 0       \* the data {}
NoError == "null"
Undefined == "undefined"
None == "-"
\* recordRequestsInProgress[recordName] is undefined: no callback is 0.
NoQueue == <<0>>

\* Record names are strings, modelled as sequences of characters.
NameHot == <<"h", "x">>
NamePlain == <<"a", "b">>
Names == {NameHot, NamePlain}

\* The configurations the handler is constructed with.
PrefixLists == {<< >>, << <<"h">> >>}

\* ------------------------------------------------------------ RA constants
WriteAckActions ==
  {"CREATEANDPATCH_WITH_WRITE_ACK", "CREATEANDUPDATE_WITH_WRITE_ACK",
   "PATCH_WITH_WRITE_ACK", "UPDATE_WITH_WRITE_ACK", "ERASE_WITH_WRITE_ACK"}

WRITE_ACK_TO_ACTION(a) ==
  CASE a = "CREATEANDPATCH_WITH_WRITE_ACK" -> "CREATEANDPATCH"
    [] a = "CREATEANDUPDATE_WITH_WRITE_ACK" -> "CREATEANDUPDATE"
    [] a = "PATCH_WITH_WRITE_ACK" -> "PATCH"
    [] a = "UPDATE_WITH_WRITE_ACK" -> "UPDATE"
    [] a = "ERASE_WITH_WRITE_ACK" -> "ERASE"
    [] OTHER -> Undefined

\* const action = message.isWriteAck ? WRITE_ACK_TO_ACTION[message.action] : message.action
DispatchAction(m) ==
  IF m.isWriteAck THEN WRITE_ACK_TO_ACTION(m.action) ELSE m.action

\* ------------------------------------------------------------ pure helpers
\* String.prototype.indexOf: the 0-based position of the first occurrence
\* of pattern in s, or -1.
IndexOf(s, pattern) ==
  LET hits == {i \in 0..(Len(s) - Len(pattern)) :
                 SubSeq(s, i + 1, i + Len(pattern)) = pattern}
  IN IF hits = {} THEN -1 ELSE CHOOSE i \in hits : \A j \in hits : i <= j

\* isExcluded(prefixes, name) of utils: name starts with one of the prefixes.
isExcluded(prefixes, name) ==
  \E i \in 1..Len(prefixes) :
     /\ Len(prefixes[i]) <= Len(name)
     /\ SubSeq(name, 1, Len(prefixes[i])) = prefixes[i]

\* The loop of createAndUpdate over config.storageHotPathPrefixes, from
\* index i on: "force" (permission then forceWrite), "invalid"
\* (INVALID_PATCH_ON_HOTPATH) or "none" (the loop ends without returning).
RECURSIVE HotPathScan(_, _, _, _)
HotPathScan(prefixes, i, recordName, isPatch) ==
  IF i > Len(prefixes) THEN "none"
  ELSE IF IndexOf(recordName, prefixes[i]) # -1 /\ ~isPatch THEN "force"
  ELSE IF isPatch THEN "invalid"
  ELSE HotPathScan(prefixes, i + 1, recordName, isPatch)

\* JavaScript's a || b on error values.
JsOr(a, b) == IF a \notin {Undefined, NoError} THEN a ELSE b

\* writeError = writeError || error || null
NextWriteError(writeError, error) == JsOr(JsOr(writeError, error), NoError)

ForceWriteAckDueEither(cacheResponse, storageResponse) ==
  storageResponse \/ cacheResponse

\* if (storageResponse && cacheResponse) of handleForceWriteAcknowledgement
ForceWriteAckDue(cacheResponse, storageResponse) ==
  storageResponse /\ cacheResponse

BroadcastAlways(error) == TRUE

\* if (!error) of forceWrite's cache callback
ForceWriteBroadcasts(error) == error = NoError

PermissionIgnoresError(error, canPerformAction) == canPerformAction

\* if (error || !canPerformAction) of onPermissionResponse, negated
PermissionGranted(error, canPerformAction) ==
  ~(error # NoError \/ ~canPerformAction)

\* const record = { _v: 0, _d: message.parsedData } of forceWrite
ForceWriteRecord(m) == [_v |-> 0, _d |-> m.data]

\* ------------------------------------------------------------------- state
VARIABLES
  config,       \* [storageHotPathPrefixes, storageExclusionPrefixes]
  req,          \* the messages handled so far and their callbacks' closures
  cache,        \* the cache plugin's content, by record name
  storage,      \* the storage plugin's content, by record name
  storageSets,  \* names services.storage.set was called with
  transitions,  \* this.transitions: name -> RecordTransition
  trans,        \* the RecordTransition objects
  subs,         \* the subscription registry: <<name, sender>>
  out,          \* per message: what it sent and broadcast, in order
  recordRequestsInProgress,  \* this.recordRequestsInProgress
  cb            \* the callbacks handed to runWhenRecordStable

vars == <<config, req, cache, storage, storageSets, transitions, trans,
          subs, out, recordRequestsInProgress, cb>>


isRemote(sender) == sender = "R"
\* The error a callback is handed: null, or the error of its service.
PermissionErrors == {NoError, "permissionError"}
CacheErrors == {NoError, "cacheError"}
StorageErrors == {NoError, "storageError"}
DeletionErrors == {NoError, "deletionError"}

\* A message not yet received.
Blank ==
  [pc |-> "idle", action |-> None, isWriteAck |-> FALSE, name |-> << >>,
   version |-> NoVersion, hasPath |-> FALSE, data |-> EmptyData,
   correlationId |-> None, sender |-> None,
   msgAction |-> None, originalAction |-> None, checks |-> << >>,
   transition |-> NoTransition, upsert |-> FALSE,
   record |-> NoRecord, cachePending |-> FALSE, storagePending |-> FALSE,
   cacheResponse |-> FALSE, storageResponse |-> FALSE,
   writeError |-> Undefined, write |-> None, route |-> None,
   cacheError |-> Undefined, storageError |-> Undefined,
   subscribed |-> FALSE]

\* A message as the parser delivers it.
Message(r, action, name, version, correlationId, sender) ==
  [Blank EXCEPT
     !.pc = "received", !.action = action,
     !.isWriteAck = (action \in WriteAckActions),
     !.name = name, !.version = version,
     !.hasPath = (action \in {"CREATEANDPATCH", "CREATEANDPATCH_WITH_WRITE_ACK",
                              "PATCH", "PATCH_WITH_WRITE_ACK",
                              "ERASE", "ERASE_WITH_WRITE_ACK"}),
     !.data = r, !.correlationId = correlationId, !.sender = sender,
     !.msgAction = action]

\* An outbound message, or a broadcast to the subscribers.
Sent(action, originalAction, version, error, correlationId) ==
  [action |-> action, originalAction |-> originalAction, version |-> version,
   error |-> error, correlationId |-> correlationId, data |-> None]

\* sendRecord(recordName, record, socketWrapper)
sendRecord(record) ==
  [Sent("READ_RESPONSE", None, record._v, None, None)
     EXCEPT !.data = record._d]

Broadcast(m) == Sent("BROADCAST", None, m.version, None, None)

\* A RecordTransition that was never constructed.
NoTrans ==
  [name |-> << >>, steps |-> << >>, isDestroyed |-> FALSE, loaded |-> FALSE,
   record |-> NoRecord, lastVersion |-> -1, inStep |-> FALSE]

Callbacks == 1..MaxCallbacks

\* A callback not yet handed to runWhenRecordStable.  earlier: the table
\* held an entry for its name when it was handed over; via: the operation
\* that invoked it.
NewCallback ==
  [state |-> "new", name |-> << >>, earlier |-> FALSE, via |-> None]

Init ==
  /\ config \in [storageHotPathPrefixes : PrefixLists,
                 storageExclusionPrefixes : PrefixLists]
  /\ req = [r \in Requests |-> Blank]
  /\ cache = [n \in Names |-> NoRecord]
  /\ storage = [n \in Names |-> NoRecord]
  /\ storageSets = {}
  /\ transitions = [n \in Names |-> NoTransition]
  /\ trans = [t \in Requests |-> NoTrans]
  /\ subs = {}
  /\ out = [r \in Requests |-> << >>]
  /\ recordRequestsInProgress = [n \in Names |-> NoQueue]
  /\ cb = [c \in Callbacks |-> NewCallback]

\* The next message is the first one not yet received.
IsNext(r) ==
  /\ req[r].pc = "idle"
  /\ \A q \in Requests : q < r => req[q].pc # "idle"

\* ------------------------------------------------------- permissionAction
\* permissionAction: services.permissionHandler.canPerformAction is called
\* with the message's copy, its action rewritten; the response comes later.
permissionAction(m, actionToPermission, originalAction, pc) ==
  [m EXCEPT !.pc = pc, !.originalAction = originalAction,
            !.checks = Append(@, [action |-> actionToPermission,
                                  error |-> None, allowed |-> None])]

\* The last permission check, answered: error || !canPerformAction looks at
\* canPerformAction only when there is no error.
Answered(m, error, canPerformAction) ==
  [m EXCEPT !.checks[Len(m.checks)].error = error,
            !.checks[Len(m.checks)].allowed =
               IF error # NoError THEN None
               ELSE IF canPerformAction THEN "yes" ELSE "no"]

PermissionPcs ==
  {"permCreateHot", "permUpdateHot", "permAdd", "permCreate", "permUpdate",
   "permCreateRead", "permRead"}

\* onPermissionResponse, the branch error || !canPerformAction
PermissionRefused(r) ==
  \E error \in PermissionErrors, canPerformAction \in BOOLEAN :
    /\ req[r].pc \in PermissionPcs
    /\ ~PermissionGranted(error, canPerformAction)
    /\ LET m == Answered(req[r], error, canPerformAction)
           action == IF error # NoError THEN "MESSAGE_PERMISSION_ERROR"
                     ELSE "MESSAGE_DENIED"
       IN /\ req' = [req EXCEPT ![r] = [m EXCEPT !.pc = "done"]]
          /\ out' = [out EXCEPT ![r] =
                       Append(@, Sent(action, m.originalAction, None, None,
                                      m.correlationId))]
    /\ UNCHANGED <<config, cache, storage, storageSets, transitions, trans,
                   subs, recordRequestsInProgress, cb>>

\* onPermissionResponse, the branch successCallback(), for the check that
\* message r waits for at pc.
Allowed(r, pc, error, canPerformAction) ==
  /\ req[r].pc = pc
  /\ PermissionGranted(error, canPerformAction)


Say(r, msg) == [out EXCEPT ![r] = Append(@, msg)]

\* ------------------------------------------------------ RecordTransition
\* new RecordTransition(recordName, ...)
NewTransition(recordName) == [NoTrans EXCEPT !.name = recordName]

\* hasVersion(v): v is at most the highest version accepted into the queue.
hasVersion(T, version) == version <= T.lastVersion

\* add(sender, message, upsert): enqueue a step.
TransitionAdd(T, r, version) ==
  [T EXCEPT !.steps = Append(@, r),
            !.lastVersion = IF version > @ THEN version ELSE @]

\* The data of a step applied to the resident data: a full update replaces
\* it, a patch sets the pointed value, an erase removes it.
ApplyStep(m) ==
  IF DispatchAction(m) \in {"ERASE"} THEN EmptyData ELSE m.data

\* The transition after its queue emptied: the working copy is dropped.
Emptied(T) ==
  [T EXCEPT !.steps = << >>, !.inStep = FALSE, !.loaded = FALSE,
            !.record = NoRecord]

\* destroy(): the terminal flag is set and the pending steps are discarded.
Destroyed(T) == [T EXCEPT !.isDestroyed = TRUE, !.steps = << >>,
                          !.inStep = FALSE]

\* A transition is live when it has pending or in-process steps and has
\* not been destroyed.
Live(t) == trans[t].steps # << >> /\ ~trans[t].isDestroyed

InSeq(x, seq) == \E i \in 1..Len(seq) : seq[i] = x

\* ------------------------------------------------------- the stability gate
\* removeRecordRequest(recordName): the table afterwards.
RemoveRecordRequestTable(table, recordName) ==
  IF table[recordName] = NoQueue THEN table
  ELSE IF Len(table[recordName]) = 0 THEN [table EXCEPT ![recordName] = NoQueue]
  ELSE [table EXCEPT ![recordName] = Tail(@)]

\* removeRecordRequest(recordName): the callbacks it invokes.
RemoveRecordRequestCalls(table, recordName) ==
  IF table[recordName] = NoQueue \/ Len(table[recordName]) = 0 THEN << >>
  ELSE <<Head(table[recordName])>>

RunsImmediatelyWhenAbsent(table, recordName) == table[recordName] = NoQueue

\* runWhenRecordStable(recordName, callback): whether callback is invoked
\* synchronously.
RunsImmediately(table, recordName) ==
  table[recordName] = NoQueue \/ Len(table[recordName]) = 0

RunWhenRecordStableKeepsTable(table, recordName, callback) ==
  IF RunsImmediately(table, recordName) THEN table
  ELSE [table EXCEPT ![recordName] = Append(@, callback)]

\* runWhenRecordStable(recordName, callback): the table afterwards.
RunWhenRecordStableTable(table, recordName, callback) ==
  IF RunsImmediately(table, recordName)
  THEN [table EXCEPT ![recordName] = << >>]
  ELSE [table EXCEPT ![recordName] = Append(@, callback)]

\* ------------------------------------------------------------------ update
\* transitionComplete(recordName): delete this.transitions[recordName]
transitionComplete(table, recordName) ==
  [table EXCEPT ![recordName] = NoTransition]

VersionExistsNever(t, version) == FALSE

\* if (transition && transition.hasVersion(version)) of update
VersionExists(t, version) ==
  t # NoTransition /\ hasVersion(trans[t], version)

isRemoteNever(sender) == FALSE

\* if (socketWrapper.isRemote) of update
UpdateIsRemote(sender) == isRemote(sender)

\* update(socketWrapper, message, upsert), for message r whose closure is m.
update(r, m, upsert) ==
  LET recordName == m.name
      version == m.version
      m1 == [m EXCEPT !.msgAction = IF m.hasPath THEN "PATCH" ELSE "UPDATE"]
      t == transitions[recordName]
  IN IF UpdateIsRemote(m.sender)
     THEN /\ req' = [req EXCEPT ![r] = [m1 EXCEPT !.pc = "done"]]
          /\ out' = Say(r, Broadcast(m1))
          /\ UNCHANGED <<transitions, trans>>
     ELSE IF VersionExists(t, version)
     THEN /\ req' = [req EXCEPT ![r] = [m1 EXCEPT !.pc = "done"]]
          /\ out' = Say(r, Sent("VERSION_EXISTS", None, trans[t].record._v,
                                None, None))
          /\ UNCHANGED <<transitions, trans>>
     ELSE LET t2 == IF t = NoTransition THEN r ELSE t
              T == IF t = NoTransition THEN NewTransition(recordName)
                   ELSE trans[t]
          IN /\ transitions' = [transitions EXCEPT ![recordName] = t2]
             /\ trans' = [trans EXCEPT ![t2] = TransitionAdd(T, r, version)]
             /\ req' = [req EXCEPT ![r] =
                          [m1 EXCEPT !.pc = "queued", !.upsert = upsert,
                                     !.transition = t2]]
             /\ UNCHANGED out


\* ------------------------------------------------ handle: createAndUpdate
UpsertActions ==
  {"CREATEANDUPDATE", "CREATEANDUPDATE_WITH_WRITE_ACK",
   "CREATEANDPATCH", "CREATEANDPATCH_WITH_WRITE_ACK"}

\* handle -> createAndUpdate(socketWrapper, message)
CreateAndUpdate(r, actions, names, versions, correlationIds) ==
  \E action \in actions, name \in names, version \in versions,
     correlationId \in correlationIds :
    LET m0 == Message(r, action, name, version, correlationId, "A")
        recordName == m0.name
        isPatch == m0.hasPath
        originalAction == m0.action
        m == [m0 EXCEPT !.msgAction = IF isPatch THEN "PATCH" ELSE "UPDATE"]
        scan == HotPathScan(config.storageHotPathPrefixes, 1, recordName,
                            isPatch)
        transition == transitions[recordName]
    IN /\ IsNext(r)
       /\ DispatchAction(m0) \in {"CREATEANDUPDATE", "CREATEANDPATCH"}
       \* only a hot-path write may come without a version
       /\ version = NoVersion => scan = "force"
       /\ IF scan = "force"
          THEN /\ req' = [req EXCEPT ![r] =
                   [permissionAction(m, "CREATE", originalAction,
                                     "permCreateHot")
                      EXCEPT !.route = "force"]]
               /\ UNCHANGED out
          ELSE IF scan = "invalid"
          THEN /\ req' = [req EXCEPT ![r] = [m EXCEPT !.pc = "done",
                                                      !.route = "invalid"]]
               /\ out' = Say(r, Sent("INVALID_PATCH_ON_HOTPATH", m.msgAction,
                                     None, None, None))
          ELSE IF transition # NoTransition
          THEN /\ req' = [req EXCEPT ![r] =
                   [permissionAction(m, m.msgAction, originalAction,
                                     "permAdd")
                      EXCEPT !.transition = transition, !.route = "add"]]
               /\ UNCHANGED out
          ELSE /\ req' = [req EXCEPT ![r] =
                   [permissionAction(m, "CREATE", originalAction,
                                     "permCreate")
                      EXCEPT !.route = "upsert"]]
               /\ UNCHANGED out
       /\ UNCHANGED <<config, cache, storage, storageSets, transitions,
                      trans, subs, recordRequestsInProgress, cb>>

\* The CREATE check of a hot-path write was allowed: the UPDATE check starts.
HotCreateAllowed(r) ==
  \E error \in PermissionErrors, canPerformAction \in BOOLEAN :
    LET m == Answered(req[r], error, canPerformAction) IN
    /\ Allowed(r, "permCreateHot", error, canPerformAction)
    /\ req' = [req EXCEPT ![r] =
                 permissionAction(m, "UPDATE", m.originalAction,
                                  "permUpdateHot")]
    /\ UNCHANGED <<config, cache, storage, storageSets, transitions, trans,
                   subs, out, recordRequestsInProgress, cb>>

\* The UPDATE check of a hot-path write was allowed:
\* forceWrite(recordName, message, socketWrapper) up to its two set calls.
ForceWrite(r) ==
  \E error \in PermissionErrors, canPerformAction \in BOOLEAN :
    LET m == Answered(req[r], error, canPerformAction) IN
    /\ Allowed(r, "permUpdateHot", error, canPerformAction)
    /\ req' = [req EXCEPT ![r] =
                 [m EXCEPT !.pc = "forceWrite", !.write = "force",
                           !.record = ForceWriteRecord(m),
                           !.cacheResponse = FALSE,
                           !.storageResponse = FALSE,
                           !.writeError = Undefined,
                           !.storagePending = TRUE, !.cachePending = TRUE]]
    /\ storageSets' = storageSets \cup {m.name}
    /\ UNCHANGED <<config, cache, storage, transitions, trans, subs, out,
                   recordRequestsInProgress, cb>>

\* handleForceWriteAcknowledgement: the messages it sends.
handleForceWriteAcknowledgement(m, cacheResponse, storageResponse, error) ==
  IF ForceWriteAckDue(cacheResponse, storageResponse)
  THEN <<Sent("WRITE_ACKNOWLEDGEMENT", None, m.version, error, None)>>
  ELSE << >>

Finished(m) ==
  [m EXCEPT !.pc = IF m.cachePending \/ m.storagePending THEN @ ELSE "done"]

\* The storage.set callback of forceWrite.
ForceWriteStorageDone(r) ==
  \E error \in StorageErrors :
    LET m == req[r]
        writeAck == m.isWriteAck
        writeError == NextWriteError(m.writeError, error)
        m1 == IF writeAck
              THEN [m EXCEPT !.storageResponse = TRUE,
                             !.writeError = writeError,
                             !.storagePending = FALSE,
                             !.storageError = error]
              ELSE [m EXCEPT !.storagePending = FALSE,
                             !.storageError = error]
    IN /\ m.write = "force" /\ m.storagePending
       /\ storage' = IF error = NoError
                     THEN [storage EXCEPT ![m.name] = m.record] ELSE storage
       /\ req' = [req EXCEPT ![r] = Finished(m1)]
       /\ out' = IF writeAck
                 THEN [out EXCEPT ![r] = @ \o
                        handleForceWriteAcknowledgement(
                          m1, m1.cacheResponse, m1.storageResponse,
                          m1.writeError)]
                 ELSE out
       /\ UNCHANGED <<config, cache, storageSets, transitions, trans, subs,
                      recordRequestsInProgress, cb>>

\* The cache.set callback of forceWrite.
ForceWriteCacheDone(r) ==
  \E error \in CacheErrors :
    LET m == req[r]
        writeAck == m.isWriteAck
        writeError == NextWriteError(m.writeError, error)
        m1 == IF writeAck
              THEN [m EXCEPT !.cacheResponse = TRUE,
                             !.writeError = writeError,
                             !.cachePending = FALSE,
                             !.cacheError = error]
              ELSE [m EXCEPT !.cachePending = FALSE,
                             !.cacheError = error]
        broadcast == IF ForceWriteBroadcasts(error) THEN <<Broadcast(m)>>
                     ELSE << >>
    IN /\ m.write = "force" /\ m.cachePending
       /\ cache' = IF error = NoError
                   THEN [cache EXCEPT ![m.name] = m.record] ELSE cache
       /\ req' = [req EXCEPT ![r] = Finished(m1)]
       /\ out' = [out EXCEPT ![r] = @ \o broadcast \o
                   (IF writeAck
                    THEN handleForceWriteAcknowledgement(
                           m1, m1.cacheResponse, m1.storageResponse,
                           m1.writeError)
                    ELSE << >>)]
       /\ UNCHANGED <<config, storage, storageSets, transitions, trans, subs,
                      recordRequestsInProgress, cb>>

\* The permission check of an upsert that found a transition was allowed:
\* transition.add(socketWrapper, message), on the transition found then.
AddAllowed(r) ==
  \E error \in PermissionErrors, canPerformAction \in BOOLEAN :
    LET m == Answered(req[r], error, canPerformAction) IN
    /\ Allowed(r, "permAdd", error, canPerformAction)
    /\ trans' = [trans EXCEPT ![m.transition] =
                   TransitionAdd(@, r, m.version)]
    /\ req' = [req EXCEPT ![r] = [m EXCEPT !.pc = "queued",
                                           !.upsert = FALSE]]
    /\ UNCHANGED <<config, cache, storage, storageSets, transitions, subs,
                   out, recordRequestsInProgress, cb>>

\* The CREATE check of an upsert was allowed: the UPDATE check starts.
UpsertCreateAllowed(r) ==
  \E error \in PermissionErrors, canPerformAction \in BOOLEAN :
    LET m == Answered(req[r], error, canPerformAction) IN
    /\ Allowed(r, "permCreate", error, canPerformAction)
    /\ req' = [req EXCEPT ![r] =
                 permissionAction(m, "UPDATE", m.originalAction,
                                  "permUpdate")]
    /\ UNCHANGED <<config, cache, storage, storageSets, transitions, trans,
                   subs, out, recordRequestsInProgress, cb>>

\* The UPDATE check of an upsert was allowed: update(socket, message, true)
UpsertUpdateAllowed(r) ==
  \E error \in PermissionErrors, canPerformAction \in BOOLEAN :
    LET m == Answered(req[r], error, canPerformAction) IN
    /\ Allowed(r, "permUpdate", error, canPerformAction)
    /\ update(r, m, TRUE)
    /\ UNCHANGED <<config, cache, storage, storageSets, subs,
                   recordRequestsInProgress, cb>>


\* ----------------------------------------------------------- handle: update
WriteActions ==
  {"UPDATE", "PATCH", "ERASE", "UPDATE_WITH_WRITE_ACK",
   "PATCH_WITH_WRITE_ACK", "ERASE_WITH_WRITE_ACK"}

\* The third argument handle passes to update: message.isWriteAck || false
UpdateUpsertArgument(m) == m.isWriteAck \/ FALSE

\* handle -> update(socketWrapper, message, message.isWriteAck || false)
Update(r, actions, names, versions, senders) ==
  \E action \in actions, name \in names, version \in versions,
     sender \in senders :
    LET m == Message(r, action, name, version, None, sender)
    IN /\ IsNext(r)
       /\ DispatchAction(m) \in {"UPDATE", "PATCH", "ERASE"}
       /\ update(r, m, UpdateUpsertArgument(m))
       /\ UNCHANGED <<config, cache, storage, storageSets, subs,
                      recordRequestsInProgress, cb>>

\* ------------------------------------------------------ handle: createOrRead
\* handle -> createOrRead(socketWrapper, message): recordRequest is started.
CreateOrRead(r, names, senders) ==
  \E name \in names, sender \in senders :
    LET m == Message(r, "SUBSCRIBECREATEANDREAD", name, NoVersion, None,
                     sender)
    IN /\ IsNext(r)
       /\ DispatchAction(m) = "SUBSCRIBECREATEANDREAD"
       /\ req' = [req EXCEPT ![r] = [m EXCEPT !.pc = "load"]]
       /\ UNCHANGED <<config, cache, storage, storageSets, transitions,
                      trans, subs, out, recordRequestsInProgress, cb>>

\* recordRequest: the record in the cache, else the one in the storage.
Load(name) == IF cache[name] # NoRecord THEN cache[name] ELSE storage[name]

SubscribesNobody(subscribers, m) == subscribers

\* this.subscriptionRegistry.subscribe(message, socketWrapper)
Subscribe(subscribers, m) == subscribers \cup {<<m.name, m.sender>>}

\* readAndSubscribe(message, record, socketWrapper): the READ check starts.
readAndSubscribe(m, record) ==
  [permissionAction(m, "READ", m.action, "permRead") EXCEPT !.record = record]

\* recordRequest of createOrRead completes: onComplete(record, ...)
CreateOrReadLoaded(r) ==
  LET m == req[r]
      record == Load(m.name)
  IN /\ m.pc = "load"
     /\ req' = [req EXCEPT ![r] =
                 IF record # NoRecord
                 THEN readAndSubscribe(m, record)
                 ELSE permissionAction(m, "CREATE", m.action,
                                       "permCreateRead")]
     /\ UNCHANGED <<config, cache, storage, storageSets, transitions, trans,
                    subs, out, recordRequestsInProgress, cb>>

\* recordRequest of createOrRead fails: onError is () => {}
CreateOrReadLoadFailed(r) ==
  /\ req[r].pc = "load"
  /\ req' = [req EXCEPT ![r].pc = "done", ![r].route = "loadError"]
  /\ UNCHANGED <<config, cache, storage, storageSets, transitions, trans,
                 subs, out, recordRequestsInProgress, cb>>

\* The CREATE check of createOrRead was allowed:
\* create(message, socketWrapper, undefined) up to its set calls.
Create(r) ==
  \E error \in PermissionErrors, canPerformAction \in BOOLEAN :
    LET m == Answered(req[r], error, canPerformAction)
        recordName == m.name
        record == [_v |-> 0, _d |-> EmptyData]
        stored == ~isExcluded(config.storageExclusionPrefixes, m.name)
    IN /\ Allowed(r, "permCreateRead", error, canPerformAction)
       /\ req' = [req EXCEPT ![r] =
                   [m EXCEPT !.pc = "create", !.write = "create",
                             !.record = record, !.cachePending = TRUE,
                             !.storagePending = stored]]
       /\ storageSets' = IF stored THEN storageSets \cup {recordName}
                         ELSE storageSets
       /\ UNCHANGED <<config, cache, storage, transitions, trans, subs, out,
                      recordRequestsInProgress, cb>>

CreateNeverFails(error) == FALSE

\* if (error) of create's cache.set callback
CreateFailed(error) == error # NoError

\* The cache.set callback of create.
CreateCacheDone(r) ==
  \E error \in CacheErrors :
    LET m == [req[r] EXCEPT !.cachePending = FALSE, !.cacheError = error]
    IN /\ req[r].write = "create" /\ req[r].cachePending
       /\ IF CreateFailed(error)
          THEN /\ req' = [req EXCEPT ![r] = [m EXCEPT !.pc = "done"]]
               /\ out' = Say(r, Sent("RECORD_CREATE_ERROR", m.action, None,
                                     None, None))
               /\ UNCHANGED cache
          ELSE /\ req' = [req EXCEPT ![r] = readAndSubscribe(m, m.record)]
               /\ cache' = IF error = NoError
                           THEN [cache EXCEPT ![m.name] = m.record]
                           ELSE cache
               /\ UNCHANGED out
       /\ UNCHANGED <<config, storage, storageSets, transitions, trans, subs,
                      recordRequestsInProgress, cb>>

\* The storage.set callback of create: an error is only logged.
CreateStorageDone(r) ==
  \E error \in StorageErrors :
    LET m == [req[r] EXCEPT !.storagePending = FALSE,
                            !.storageError = error]
    IN /\ req[r].write = "create" /\ req[r].storagePending
       /\ storage' = IF error = NoError
                     THEN [storage EXCEPT ![m.name] = [_v |-> 0,
                                                       _d |-> EmptyData]]
                     ELSE storage
       /\ req' = [req EXCEPT ![r] = m]
       /\ UNCHANGED <<config, cache, storageSets, transitions, trans, subs,
                      out, recordRequestsInProgress, cb>>

\* The READ check of readAndSubscribe was allowed: subscribe, sendRecord.
ReadAllowed(r) ==
  \E error \in PermissionErrors, canPerformAction \in BOOLEAN :
    LET m == Answered(req[r], error, canPerformAction)
    IN /\ Allowed(r, "permRead", error, canPerformAction)
       /\ subs' = Subscribe(subs, m)
       /\ out' = Say(r, sendRecord(m.record))
       /\ req' = [req EXCEPT ![r] = [m EXCEPT !.pc = "done",
                                              !.subscribed = TRUE]]
       /\ UNCHANGED <<config, cache, storage, storageSets, transitions,
                      trans, recordRequestsInProgress, cb>>

\* ------------------------------------------------- handle: snapshot, head
\* The events recordRequest reports to onError.
LoadErrors == {"RECORD_LOAD_ERROR"}

\* handle -> snapshot(socketWrapper, message): recordRequest is started.
Snapshot(r, names, senders) ==
  \E name \in names, sender \in senders :
    LET m == Message(r, "READ", name, NoVersion, None, sender)
    IN /\ IsNext(r)
       /\ DispatchAction(m) = "READ"
       /\ req' = [req EXCEPT ![r] = [m EXCEPT !.pc = "loadSnapshot"]]
       /\ UNCHANGED <<config, cache, storage, storageSets, transitions,
                      trans, subs, out, recordRequestsInProgress, cb>>

\* onComplete of snapshot: the message it sends.
SnapshotOnComplete(m, record) ==
  IF record # NoRecord THEN sendRecord(record)
  ELSE Sent("RECORD_NOT_FOUND", m.action, None, None, None)

\* onError of snapshot: the message it sends.
SnapshotOnError(m, event) == Sent(event, m.action, None, None, None)

\* recordRequest of snapshot completes.
SnapshotLoaded(r) ==
  /\ req[r].pc = "loadSnapshot"
  /\ req' = [req EXCEPT ![r].pc = "done"]
  /\ out' = Say(r, SnapshotOnComplete(req[r], Load(req[r].name)))
  /\ UNCHANGED <<config, cache, storage, storageSets, transitions, trans,
                 subs, recordRequestsInProgress, cb>>

\* recordRequest of snapshot fails.
SnapshotLoadFailed(r) ==
  \E event \in LoadErrors :
    /\ req[r].pc = "loadSnapshot"
    /\ req' = [req EXCEPT ![r].pc = "done", ![r].route = "loadError"]
    /\ out' = Say(r, SnapshotOnError(req[r], event))
    /\ UNCHANGED <<config, cache, storage, storageSets, transitions, trans,
                   subs, recordRequestsInProgress, cb>>

\* head(socketWrapper, message): recordRequest is started.
head(m) == [m EXCEPT !.pc = "loadHead"]

\* handle -> head(socketWrapper, message)
HandleHead(r, names, senders) ==
  \E name \in names, sender \in senders :
    LET m == Message(r, "HEAD", name, NoVersion, None, sender)
    IN /\ IsNext(r)
       /\ DispatchAction(m) = "HEAD"
       /\ req' = [req EXCEPT ![r] = head(m)]
       /\ UNCHANGED <<config, cache, storage, storageSets, transitions,
                      trans, subs, out, recordRequestsInProgress, cb>>

\* handle -> subscribeAndHead(socketWrapper, message): head, then subscribe.
SubscribeAndHead(r, names, senders) ==
  \E name \in names, sender \in senders :
    LET m == Message(r, "SUBSCRIBEANDHEAD", name, NoVersion, None, sender)
    IN /\ IsNext(r)
       /\ DispatchAction(m) = "SUBSCRIBEANDHEAD"
       /\ req' = [req EXCEPT ![r] =
                   [head(m) EXCEPT !.subscribed =
                      <<m.name, m.sender>> \in Subscribe(subs, m)]]
       /\ subs' = Subscribe(subs, m)
       /\ UNCHANGED <<config, cache, storage, storageSets, transitions,
                      trans, out, recordRequestsInProgress, cb>>

HeadOnErrorCollapsed(m, event) ==
  Sent("HEAD_RESPONSE", None, -1, None, None)

\* onError of head: the message it sends.
HeadOnError(m, event) == Sent(event, m.action, None, None, None)

\* onComplete of head: version: record ? record._v : -1
HeadOnComplete(m, record) ==
  Sent("HEAD_RESPONSE", None,
       IF record # NoRecord THEN record._v ELSE -1, None, None)

\* recordRequest of head completes.
HeadLoaded(r) ==
  /\ req[r].pc = "loadHead"
  /\ req' = [req EXCEPT ![r].pc = "done", ![r].record = Load(req[r].name)]
  /\ out' = Say(r, HeadOnComplete(req[r], Load(req[r].name)))
  /\ UNCHANGED <<config, cache, storage, storageSets, transitions, trans,
                 subs, recordRequestsInProgress, cb>>

\* recordRequest of head fails.
HeadLoadFailed(r) ==
  \E event \in LoadErrors :
    /\ req[r].pc = "loadHead"
    /\ req' = [req EXCEPT ![r].pc = "done", ![r].route = "loadError"]
    /\ out' = Say(r, HeadOnError(req[r], event))
    /\ UNCHANGED <<config, cache, storage, storageSets, transitions, trans,
                   subs, recordRequestsInProgress, cb>>


\* ------------------------------------------- RecordTransition: processing
\* The messages whose steps wait in transition t.
Waiting(t) == {q \in Requests : InSeq(q, trans[t].steps)}

\* The transition's record request completes: the record it will mutate.
TransitionLoaded(t) ==
  LET T == trans[t]
  IN /\ T.steps # << >> /\ ~T.isDestroyed /\ ~T.loaded
     /\ trans' = [trans EXCEPT ![t] = [T EXCEPT !.loaded = TRUE,
                                                !.record = Load(T.name)]]
     /\ UNCHANGED <<config, req, cache, storage, storageSets, transitions,
                    subs, out, recordRequestsInProgress, cb>>

\* The step leaves the queue; an empty queue ends the transition, which
\* tells the handler: transitionComplete(name).
Dequeue(t, T) ==
  IF Len(T.steps) = 1
  THEN /\ trans' = [trans EXCEPT ![t] = Emptied(T)]
       /\ transitions' = transitionComplete(transitions, T.name)
  ELSE /\ trans' = [trans EXCEPT ![t] = [T EXCEPT !.steps = Tail(@),
                                                  !.inStep = FALSE]]
       /\ UNCHANGED transitions

\* The version discipline for the step of message m on the resident record.
StepVerdict(record, m) ==
  IF m.version <= record._v THEN "VERSION_EXISTS"
  ELSE IF m.version = record._v + 1 THEN "accept"
  ELSE IF m.upsert /\ record = NoRecord THEN "accept"
  ELSE "INVALID_VERSION"

\* The head step is taken up: it is rejected, or its record is handed to
\* the cache and, unless the name is excluded, to the storage.
TransitionStep(t) ==
  LET T == trans[t]
      r == Head(T.steps)
      m == req[r]
      verdict == StepVerdict(T.record, m)
      record == [_v |-> m.version, _d |-> ApplyStep(m)]
      stored == ~isExcluded(config.storageExclusionPrefixes, T.name)
  IN /\ T.steps # << >> /\ ~T.isDestroyed /\ T.loaded /\ ~T.inStep
     /\ IF verdict = "accept"
        THEN /\ trans' = [trans EXCEPT ![t] = [T EXCEPT !.record = record,
                                                        !.inStep = TRUE]]
             /\ req' = [req EXCEPT ![r] =
                         [m EXCEPT !.pc = "step", !.write = "step",
                                   !.record = record,
                                   !.cachePending = TRUE,
                                   !.storagePending = stored]]
             /\ storageSets' = IF stored THEN storageSets \cup {T.name}
                               ELSE storageSets
             /\ UNCHANGED <<out, transitions>>
        ELSE /\ Dequeue(t, T)
             /\ req' = [req EXCEPT ![r].pc = "done"]
             /\ out' = Say(r, Sent(verdict, None, T.record._v, None, None))
             /\ UNCHANGED storageSets
     /\ UNCHANGED <<config, cache, storage, subs,
                    recordRequestsInProgress, cb>>

\* The WRITE_ACKNOWLEDGEMENT of a step, once cache and storage have replied.
StepAck(m) ==
  IF m.isWriteAck /\ ~m.cachePending /\ ~m.storagePending
  THEN <<Sent("WRITE_ACKNOWLEDGEMENT", None, m.version,
              NextWriteError(m.writeError, NoError), None)>>
  ELSE << >>

\* The cache replies to the set of the step of message r.
StepCacheDone(r) ==
  \E error \in CacheErrors :
    LET m == [req[r] EXCEPT !.cachePending = FALSE, !.cacheError = error]
        t == m.transition
        T == trans[t]
        current == ~T.isDestroyed /\ T.inStep /\ T.steps # << >>
                   /\ Head(T.steps) = r
    IN /\ req[r].write = "step" /\ req[r].cachePending
       /\ cache' = IF error = NoError
                   THEN [cache EXCEPT ![m.name] = m.record] ELSE cache
       /\ IF ~current
          THEN \* the transition was destroyed meanwhile
               /\ req' = [req EXCEPT ![r] = m]
               /\ UNCHANGED <<out, trans, transitions,
                              recordRequestsInProgress>>
          ELSE IF error = NoError
          THEN /\ req' = [req EXCEPT ![r] = [m EXCEPT !.pc = "done"]]
               /\ out' = [out EXCEPT ![r] = @ \o <<Broadcast(m)>> \o
                                            StepAck(m)]
               /\ recordRequestsInProgress' =
                    RemoveRecordRequestTable(recordRequestsInProgress,
                                             T.name)
               /\ Dequeue(t, T)
          ELSE /\ req' = [q \in Requests |->
                           IF q = r THEN [m EXCEPT !.pc = "done"]
                           ELSE IF q \in Waiting(t)
                           THEN [req[q] EXCEPT !.pc = "done"]
                           ELSE req[q]]
               /\ out' = [q \in Requests |->
                           IF q \in Waiting(t)
                           THEN Append(out[q],
                                  Sent("RECORD_UPDATE_ERROR", None, None,
                                       None, None))
                           ELSE out[q]]
               /\ trans' = [trans EXCEPT ![t] = Destroyed(T)]
               /\ transitions' = transitionComplete(transitions, T.name)
               /\ UNCHANGED recordRequestsInProgress
       /\ UNCHANGED <<config, storage, storageSets, subs, cb>>

\* The storage replies to the set of the step of message r.
StepStorageDone(r) ==
  \E error \in StorageErrors :
    LET m == [req[r] EXCEPT !.storagePending = FALSE,
                            !.storageError = error,
                            !.writeError = NextWriteError(@, error)]
    IN /\ req[r].write = "step" /\ req[r].storagePending
       /\ storage' = IF error = NoError
                     THEN [storage EXCEPT ![m.name] = m.record] ELSE storage
       /\ req' = [req EXCEPT ![r] = m]
       /\ out' = IF m.pc = "done" /\ ~trans[m.transition].isDestroyed
                 THEN [out EXCEPT ![r] = @ \o StepAck(m)] ELSE out
       /\ UNCHANGED <<config, cache, storageSets, transitions, trans, subs,
                      recordRequestsInProgress, cb>>


\* ------------------------------------------------- handle: delete
DeleteWithoutAbort(r, m, sent) ==
  /\ req' = [req EXCEPT ![r] = m]
  /\ out' = [out EXCEPT ![r] = @ \o sent]
  /\ UNCHANGED <<trans, transitions>>

\* if (this.transitions[recordName]) { destroy(); delete transitions[...] }
\* of delete and remoteDelete; destroy() drains the write-ack waiters with
\* an abort error.  m is the closure of the deleting message r.
AbortTransition(r, m, sent) ==
  LET t == transitions[m.name]
      waiting == IF t = NoTransition THEN {} ELSE Waiting(t)
  IN /\ req' = [q \in Requests |->
                 IF q = r THEN m
                 ELSE IF q \in waiting THEN [req[q] EXCEPT !.pc = "done"]
                 ELSE req[q]]
     /\ out' = [q \in Requests |->
                 IF q = r THEN out[q] \o sent
                 ELSE IF q \in waiting /\ req[q].isWriteAck
                 THEN Append(out[q], Sent("WRITE_ACKNOWLEDGEMENT", None,
                                          req[q].version, "aborted", None))
                 ELSE out[q]]
     /\ trans' = IF t = NoTransition THEN trans
                 ELSE [trans EXCEPT ![t] = Destroyed(@)]
     /\ transitions' = [transitions EXCEPT ![m.name] = NoTransition]

\* handle -> delete(socketWrapper, message): new RecordDeletion is started.
Delete(r, names) ==
  \E name \in names :
    LET m == Message(r, "DELETE", name, NoVersion, None, "A")
    IN /\ IsNext(r)
       /\ DispatchAction(m) = "DELETE"
       /\ AbortTransition(r, [m EXCEPT !.pc = "deleting"], << >>)
       /\ UNCHANGED <<config, cache, storage, storageSets, subs,
                      recordRequestsInProgress, cb>>

UnsubscribedNobody(name) == subs

\* onDeleted: the subscribers of name are unsubscribed.
Unsubscribed(name) == {s \in subs : s[1] # name}

\* RecordDeletion completes: on success onDeleted and the acknowledgement.
DeletionDone(r) ==
  \E error \in DeletionErrors :
    LET m == req[r]
    IN /\ m.pc = "deleting"
       /\ req' = [req EXCEPT ![r].pc = "done"]
       /\ IF error = NoError
          THEN /\ cache' = [cache EXCEPT ![m.name] = NoRecord]
               /\ storage' =
                    IF isExcluded(config.storageExclusionPrefixes, m.name)
                    THEN storage
                    ELSE [storage EXCEPT ![m.name] = NoRecord]
               /\ subs' = Unsubscribed(m.name)
               /\ out' = [out EXCEPT ![r] = @ \o
                           <<Broadcast(m),
                             Sent("DELETE_SUCCESS", None, None, None, None)>>]
          ELSE /\ out' = Say(r, Sent("RECORD_DELETE_ERROR", None, None, None,
                                     None))
               /\ UNCHANGED <<cache, storage, subs>>
       /\ UNCHANGED <<config, storageSets, transitions, trans,
                      recordRequestsInProgress, cb>>

\* handle -> remoteDelete(socketWrapper, message)
RemoteDelete(r, names) ==
  \E name \in names :
    LET m == Message(r, "DELETE_SUCCESS", name, NoVersion, None, "R")
    IN /\ IsNext(r)
       /\ DispatchAction(m) = "DELETE_SUCCESS"
       /\ AbortTransition(r, [m EXCEPT !.pc = "done"], <<Broadcast(m)>>)
       /\ subs' = Unsubscribed(m.name)
       /\ UNCHANGED <<config, cache, storage, storageSets,
                      recordRequestsInProgress, cb>>

\* ------------------------------------------------------------ specification
Versions == 1..MaxVersion

\* The steps of the permission checks and of the hot-path write.
HotPathNext(r) ==
  \/ PermissionRefused(r)
  \/ HotCreateAllowed(r)
  \/ ForceWrite(r)
  \/ ForceWriteStorageDone(r)
  \/ ForceWriteCacheDone(r)
  \/ AddAllowed(r)
  \/ UpsertCreateAllowed(r)
  \/ UpsertUpdateAllowed(r)

\* The steps of the record transitions.
TransitionNext(r) ==
  \/ TransitionLoaded(r)
  \/ TransitionStep(r)
  \/ StepCacheDone(r)
  \/ StepStorageDone(r)

\* The steps of createOrRead and of the deletions.
ReadDeleteNext(r) ==
  \/ CreateOrReadLoaded(r)
  \/ CreateOrReadLoadFailed(r)
  \/ Create(r)
  \/ CreateCacheDone(r)
  \/ CreateStorageDone(r)
  \/ ReadAllowed(r)
  \/ DeletionDone(r)

\* The handler under MaxRequests messages of any kind.
Next ==
  \E r \in 1..MaxRequests :
    \/ CreateAndUpdate(r, UpsertActions, Names, {NoVersion} \cup Versions,
                       {None})
    \/ Update(r, WriteActions, Names, Versions, {"A"})
    \/ Update(r, {"UPDATE"}, Names, {1}, {"R"})
    \/ CreateOrRead(r, Names, {"A", "B"})
    \/ Delete(r, Names)
    \/ RemoteDelete(r, Names)
    \/ HotPathNext(r)
    \/ TransitionNext(r)
    \/ ReadDeleteNext(r)

Spec == Init /\ [][Next]_vars

\* The handler under MaxRequests upserts (CREATE_AND_UPDATE, CREATE_AND_PATCH
\* and their write-ack variants), with and without a correlationId.
HotNext ==
  \E r \in 1..MaxRequests :
    \/ CreateAndUpdate(r, UpsertActions, Names, {NoVersion} \cup Versions,
                       {None, "c"})
    \/ HotPathNext(r)
    \/ TransitionNext(r)

HotSpec == Init /\ [][HotNext]_vars

\* The handler under MaxRequests + 1 messages among UPDATE, CREATE_AND_UPDATE,
\* DELETE and DELETE_SUCCESS for one record name: the interleavings of an
\* upsert's permission check with the life of a transition.
RaceNext ==
  \E r \in Requests :
    \/ Update(r, {"UPDATE"}, {NameHot}, Versions, {"A"})
    \/ CreateAndUpdate(r, {"CREATEANDUPDATE"}, {NameHot}, Versions, {None})
    \/ Delete(r, {NameHot})
    \/ RemoteDelete(r, {NameHot})
    \/ DeletionDone(r)
    \/ HotPathNext(r)
    \/ TransitionNext(r)

RaceSpec == Init /\ [][RaceNext]_vars

\* The steps of snapshot and head.
HeadNext(r) ==
  \/ SnapshotLoaded(r)
  \/ SnapshotLoadFailed(r)
  \/ HeadLoaded(r)
  \/ HeadLoadFailed(r)

\* The handler under MaxRequests + 1 read-type messages and deletions for
\* one record name, from two sockets.
ReadNext ==
  \E r \in Requests :
    \/ CreateOrRead(r, {NamePlain}, {"A", "B"})
    \/ Snapshot(r, {NamePlain}, {"A"})
    \/ HandleHead(r, {NamePlain}, {"A"})
    \/ SubscribeAndHead(r, {NamePlain}, {"A", "B"})
    \/ Delete(r, {NamePlain})
    \/ RemoteDelete(r, {NamePlain})
    \/ PermissionRefused(r)
    \/ ReadDeleteNext(r)
    \/ HeadNext(r)

\* A handler constructed without hot-path prefixes.
ReadInit == Init /\ config.storageHotPathPrefixes = << >>

ReadSpec == ReadInit /\ [][ReadNext]_vars

\* The handler under MaxRequests + 1 UPDATE, PATCH and ERASE messages for
\* one record name, from a client socket (with and without write-ack) and
\* from the message bus.
UpdateNext ==
  \E r \in Requests :
    \/ Update(r, WriteActions, {NamePlain}, Versions, {"A"})
    \/ Update(r, {"UPDATE", "PATCH", "ERASE"}, {NamePlain}, Versions, {"R"})
    \/ TransitionNext(r)

\* A handler constructed without hot-path and exclusion prefixes.
UpdateInit == ReadInit /\ config.storageExclusionPrefixes = << >>

UpdateSpec == UpdateInit /\ [][UpdateNext]_vars

\* ------------------------------------------------------- the stability gate
\* runWhenRecordStable(recordName, callback) for the next callback c.
RunWhenRecordStable(c) ==
  \E recordName \in Names :
    LET immediately == RunsImmediately(recordRequestsInProgress, recordName)
    IN /\ cb[c].state = "new"
       /\ \A d \in Callbacks : d < c => cb[d].state # "new"
       /\ recordRequestsInProgress' =
            RunWhenRecordStableTable(recordRequestsInProgress, recordName, c)
       /\ cb' = [cb EXCEPT ![c] =
                  [state |-> IF immediately THEN "invoked" ELSE "queued",
                   name |-> recordName,
                   earlier |-> recordRequestsInProgress[recordName] # NoQueue,
                   via |-> IF immediately THEN "run" ELSE None]]
       /\ UNCHANGED <<config, req, cache, storage, storageSets, transitions,
                      trans, subs, out>>

\* removeRecordRequest(recordName)
RemoveRecordRequest(recordName) ==
  LET calls == RemoveRecordRequestCalls(recordRequestsInProgress, recordName)
  IN /\ recordRequestsInProgress' =
          RemoveRecordRequestTable(recordRequestsInProgress, recordName)
     /\ cb' = [c \in Callbacks |->
                IF InSeq(c, calls)
                THEN [cb[c] EXCEPT !.state = "invoked", !.via = "remove"]
                ELSE cb[c]]
     /\ UNCHANGED <<config, req, cache, storage, storageSets, transitions,
                    trans, subs, out>>

GateNext ==
  \/ \E c \in Callbacks : RunWhenRecordStable(c)
  \/ \E recordName \in Names : RemoveRecordRequest(recordName)

GateSpec == Init /\ [][GateNext]_vars

\* ------------------------------------------------------------------ claims
\* The messages of one kind among those message r sent or broadcast.
Count(r, action) ==
  Cardinality({i \in 1..Len(out[r]) : out[r][i].action = action})

Position(r, action) ==
  CHOOSE i \in 1..Len(out[r]) : out[r][i].action = action

\* C1: in every reachable state, for every record name, at most one live
\* transition (pending or in-process steps, not destroyed) exists.
C1_OneLiveTransitionPerName ==
  \A t1, t2 \in Requests :
    (Live(t1) /\ Live(t2) /\ trans[t1].name = trans[t2].name) => t1 = t2

\* C2: between deletions the cached version of a record never decreases and
\* an existing record is never overwritten at a version already persisted:
\* every write over an existing record carries a greater version.
C2_CachedVersionsIncrease ==
  [][\A n \in Names :
       (cache[n] # NoRecord /\ cache'[n] # NoRecord /\ cache'[n] # cache[n])
         => cache'[n]._v > cache[n]._v]_vars

\* C3: a callback handed to runWhenRecordStable while the table holds an
\* entry for its name (an earlier request is in flight) is not invoked by
\* runWhenRecordStable itself, only by a later removeRecordRequest.
C3_LaterCallbackIsBlocked ==
  \A c \in Callbacks :
    (cb[c].earlier /\ cb[c].state = "invoked") => cb[c].via = "remove"

\* C4: services.storage.set is never called with a record name that matches
\* a storage-exclusion prefix.
C4_ExcludedNeverStored ==
  \A n \in storageSets : ~isExcluded(config.storageExclusionPrefixes, n)

\* C5: the hot-path force-write stores the record at the version the message
\* supplies (0 when it supplies none), and the version of its
\* WRITE_ACKNOWLEDGEMENT is the version stored.
C5_ForceWriteKeepsVersion ==
  \A r \in Requests :
    req[r].write = "force" =>
      /\ req[r].record._v =
           (IF req[r].version = NoVersion THEN 0 ELSE req[r].version)
      /\ \A i \in 1..Len(out[r]) :
           out[r][i].action = "WRITE_ACKNOWLEDGEMENT"
             => out[r][i].version = req[r].record._v

\* C6: INVALID_PATCH_ON_HOTPATH is sent only for a record name that matches
\* a configured hot-path prefix.
C6_InvalidPatchOnlyOnHotPath ==
  \A r \in Requests :
    Count(r, "INVALID_PATCH_ON_HOTPATH") > 0 =>
      \E i \in 1..Len(config.storageHotPathPrefixes) :
        IndexOf(req[r].name, config.storageHotPathPrefixes[i]) # -1

\* C7: a hot-path write that asked for write-ack sends exactly one
\* WRITE_ACKNOWLEDGEMENT, after both the cache and the storage callback
\* fired and not before; its error is null iff both sets succeeded and is
\* otherwise the error of a tier that failed.  Without write-ack none is sent.
C7_ForceWriteAcknowledgedOnce ==
  \A r \in Requests :
    req[r].write = "force" =>
      LET acks == Count(r, "WRITE_ACKNOWLEDGEMENT")
          both == ~req[r].cachePending /\ ~req[r].storagePending
      IN /\ ~req[r].isWriteAck => acks = 0
         /\ req[r].isWriteAck => acks = (IF both THEN 1 ELSE 0)
         /\ acks = 1 =>
              LET error == out[r][Position(r, "WRITE_ACKNOWLEDGEMENT")].error
              IN /\ error = NoError <=>
                      (req[r].cacheError = NoError
                         /\ req[r].storageError = NoError)
                 /\ error # NoError =>
                      error \in {req[r].cacheError, req[r].storageError}

C7_Witness ==
  \E r \in Requests :
    /\ req[r].write = "force" /\ req[r].isWriteAck /\ req[r].pc = "done"
    /\ req[r].cacheError = NoError /\ req[r].storageError = "storageError"
    /\ Count(r, "WRITE_ACKNOWLEDGEMENT") = 1
    /\ out[r][Len(out[r])].error = "storageError"

\* C8: a hot-path write is broadcast exactly once if the cache set succeeded
\* and never otherwise, whatever the storage answers; the broadcast precedes
\* the write's WRITE_ACKNOWLEDGEMENT; the write creates no transition and
\* adds no step to one.
C8_ForceWriteBroadcast ==
  \A r \in Requests :
    req[r].write = "force" =>
      /\ Count(r, "BROADCAST") =
           (IF ~req[r].cachePending /\ req[r].cacheError = NoError
            THEN 1 ELSE 0)
      /\ (Count(r, "BROADCAST") = 1 /\ Count(r, "WRITE_ACKNOWLEDGEMENT") > 0)
           => Position(r, "BROADCAST") < Position(r, "WRITE_ACKNOWLEDGEMENT")
      /\ trans[r] = NoTrans
      /\ req[r].transition = NoTransition
      /\ \A t \in Requests : ~InSeq(r, trans[t].steps)

C8_Witness ==
  \E r \in Requests :
    /\ req[r].write = "force" /\ req[r].pc = "done"
    /\ req[r].storageError = "storageError"
    /\ out[r] = <<Broadcast(req[r]),
                  Sent("WRITE_ACKNOWLEDGEMENT", None, req[r].version,
                       "storageError", None)>>

Refused(check) == check.error \notin {None, NoError} \/ check.allowed = "no"
Granted(check) == check.error = NoError /\ check.allowed = "yes"

\* Message r wrote nothing: no set call, no transition made or added to.
WroteNothing(r) ==
  /\ req[r].write = None
  /\ ~req[r].cachePending /\ ~req[r].storagePending
  /\ trans[r] = NoTrans
  /\ req[r].transition = NoTransition
  /\ \A t \in Requests : ~InSeq(r, trans[t].steps)

\* C10: an upsert that found no transition, and a hot-path write, checks
\* CREATE, then (once that was allowed) UPDATE, and writes only after both
\* were allowed.  A refused check gives exactly one message, MESSAGE_DENIED
\* or (on an evaluator error) MESSAGE_PERMISSION_ERROR, with the action
\* received as originalAction and the message's correlationId, and then
\* nothing is written, no transition made or added to, nothing broadcast.
C10_CreateThenUpdateThenWrite ==
  \A r \in Requests :
    req[r].route \in {"force", "upsert"} =>
      LET checks == req[r].checks
          n == Len(checks)
      IN /\ n \in {1, 2}
         /\ checks[1].action = "CREATE"
         /\ n = 2 => (checks[2].action = "UPDATE" /\ Granted(checks[1]))
         /\ ~WroteNothing(r) => (n = 2 /\ Granted(checks[2]))
         /\ Refused(checks[n]) =>
              /\ req[r].pc = "done"
              /\ WroteNothing(r)
              /\ out[r] =
                   <<Sent(IF checks[n].error # NoError
                          THEN "MESSAGE_PERMISSION_ERROR"
                          ELSE "MESSAGE_DENIED",
                          req[r].action, None, None, req[r].correlationId)>>

C10_Witness ==
  \E r \in Requests :
    /\ req[r].route = "upsert"
    /\ req[r].action = "CREATEANDPATCH_WITH_WRITE_ACK"
    /\ req[r].correlationId = "c"
    /\ Len(req[r].checks) = 2
    /\ req[r].checks[2].allowed = "no"
    /\ Count(r, "MESSAGE_DENIED") = 1

\* The broadcasts among the messages o.
Broadcasts(o) == Cardinality({i \in 1..Len(o) : o[i].action = "BROADCAST"})

\* C11: when DELETE is handled the transition of the name is destroyed and
\* its table entry removed by the time the deletion is started; the table
\* gets an entry for a name only when an update creates a transition; a
\* destroyed transition stays destroyed, takes up no further step, issues
\* no further set call and broadcasts nothing.
C11_DeleteAbortsTransition ==
  [][/\ \A r \in Requests :
          (req[r].pc = "idle" /\ req'[r].pc = "deleting") =>
            LET t == transitions[req'[r].name]
            IN /\ transitions'[req'[r].name] = NoTransition
               /\ t # NoTransition =>
                    (trans'[t].isDestroyed /\ trans'[t].steps = << >>)
     /\ \A n \in Names :
          (transitions[n] = NoTransition /\ transitions'[n] # NoTransition)
            => \E r \in Requests :
                 /\ transitions'[n] = r /\ req'[r].name = n
                 /\ req[r].pc # "queued" /\ req'[r].pc = "queued"
                 /\ DispatchAction(req'[r]) \in
                      {"UPDATE", "PATCH", "ERASE", "CREATEANDUPDATE",
                       "CREATEANDPATCH"}
     /\ \A t \in Requests :
          trans[t].isDestroyed =>
            /\ trans'[t].isDestroyed /\ ~trans'[t].inStep
            /\ \A q \in Requests :
                 req[q].transition = t =>
                   /\ req'[q].write = "step" => req[q].write = "step"
                   /\ Broadcasts(out'[q]) = Broadcasts(out[q])
    ]_vars

C11_Witness ==
  \E r, q \in Requests :
    /\ req[r].action = "DELETE" /\ req[r].pc \in {"deleting", "done"}
    /\ req[q].name = req[r].name /\ req[q].write = "step"
    /\ trans[req[q].transition].isDestroyed
    /\ ~req[q].cachePending /\ req[q].cacheError = NoError
    /\ Broadcasts(out[q]) = 0
    /\ transitions[req[r].name] \notin {NoTransition, req[q].transition}

\* C12: handling DELETE_SUCCESS touches neither cache nor storage and starts
\* no deletion; it destroys the transition of the name and removes its
\* table entry, broadcasts the delete message and unsubscribes every local
\* subscriber of the name, and of that name only.
C12_RemoteDeleteOnlyNotifies ==
  [][\A r \in Requests :
       (req[r].pc = "idle" /\ req'[r].action = "DELETE_SUCCESS") =>
         LET n == req'[r].name
             t == transitions[n]
         IN /\ cache' = cache /\ storage' = storage
            /\ storageSets' = storageSets
            /\ req'[r].pc = "done" /\ req'[r].write = None
            /\ ~req'[r].cachePending /\ ~req'[r].storagePending
            /\ transitions'[n] = NoTransition
            /\ t # NoTransition =>
                 (trans'[t].isDestroyed /\ trans'[t].steps = << >>)
            /\ out'[r] = <<Broadcast(req'[r])>>
            /\ \A sub \in subs' : sub[1] # n
            /\ \A sub \in subs : sub[1] # n => sub \in subs'
    ]_vars

C12_Witness ==
  \E r, q \in Requests :
    /\ req[r].action = "DELETE_SUCCESS" /\ req[r].pc = "done"
    /\ req[q].name = req[r].name /\ req[q].subscribed
    /\ <<req[q].name, req[q].sender>> \notin subs
    /\ \A d \in Requests : req[d].action # "DELETE"

\* C13: an UPDATE, PATCH or ERASE from a remote sender is broadcast and
\* nothing else: the transition table, the transitions, the cache and the
\* storage stay as they are, and the sender gets no VERSION_EXISTS, then or
\* later.
C13_RemoteUpdateOnlyBroadcast ==
  [][\A r \in Requests :
       /\ (/\ req[r].pc = "idle" /\ req'[r].pc # "idle"
           /\ isRemote(req'[r].sender)
           /\ DispatchAction(req'[r]) \in {"UPDATE", "PATCH", "ERASE"}) =>
            /\ transitions' = transitions /\ trans' = trans
            /\ cache' = cache /\ storage' = storage
            /\ storageSets' = storageSets
            /\ req'[r].pc = "done" /\ req'[r].write = None
            /\ out'[r] = <<Broadcast(req'[r])>>
       /\ (/\ req[r].pc # "idle" /\ isRemote(req[r].sender)
           /\ DispatchAction(req[r]) \in {"UPDATE", "PATCH", "ERASE"}) =>
            (out'[r] = out[r] /\ req'[r] = req[r])
    ]_vars

C13_Witness ==
  \E r, t \in Requests :
    /\ isRemote(req[r].sender) /\ req[r].pc = "done"
    /\ DispatchAction(req[r]) = "ERASE"
    /\ t < r /\ transitions[req[r].name] = t
    /\ req[r].version <= req[t].version
    /\ out[r] = <<Broadcast(req[r])>>

\* C14: a local UPDATE, PATCH or ERASE whose version is at most the highest
\* version the transition of its name has accepted gets VERSION_EXISTS and
\* is not enqueued: the transitions, the table, the cache and the storage
\* stay as they are.
C14_VersionExistsChangesNothing ==
  [][\A r \in Requests :
       (/\ req[r].pc = "idle" /\ req'[r].pc # "idle"
        /\ ~isRemote(req'[r].sender)
        /\ DispatchAction(req'[r]) \in {"UPDATE", "PATCH", "ERASE"}
        /\ transitions[req'[r].name] # NoTransition
        /\ req'[r].version <=
             trans[transitions[req'[r].name]].lastVersion) =>
         /\ Len(out'[r]) = 1 /\ out'[r][1].action = "VERSION_EXISTS"
         /\ req'[r].pc = "done" /\ req'[r].transition = NoTransition
         /\ trans' = trans /\ transitions' = transitions
         /\ cache' = cache /\ storage' = storage
         /\ storageSets' = storageSets
    ]_vars

C14_Witness ==
  \E t, r, q \in Requests :
    /\ t < r /\ r < q
    /\ req[r].pc = "done" /\ req[r].transition = NoTransition
    /\ Len(out[r]) = 1 /\ out[r][1].action = "VERSION_EXISTS"
    /\ req[t].transition = t /\ req[q].transition = t
    /\ req[q].write = "step" /\ req[q].pc = "done"
    /\ cache[req[q].name] = req[q].record

ReadActions == {"SUBSCRIBECREATEANDREAD", "READ", "HEAD", "SUBSCRIBEANDHEAD"}

\* C15: a read-type request whose load failed has sent RECORD_LOAD_ERROR
\* to its sender, and a SUBSCRIBE_CREATE_AND_READ that has ended has sent
\* its sender a READ_RESPONSE or an error message.
C15_LoadErrorReachesSender ==
  \A r \in Requests :
    req[r].action \in ReadActions =>
      /\ req[r].route = "loadError" =>
           out[r] = <<Sent("RECORD_LOAD_ERROR", req[r].action, None, None,
                           None)>>
      /\ (req[r].action = "SUBSCRIBECREATEANDREAD" /\ req[r].pc = "done")
           => Len(out[r]) >= 1

\* C16: a HEAD request sends nothing before its load ends and exactly one
\* message after it: HEAD_RESPONSE with the version of the record loaded,
\* -1 when there is none, or, when the load failed, the error event with
\* the HEAD as originalAction and no HEAD_RESPONSE.
C16_HeadRepliesOnce ==
  \A r \in Requests :
    req[r].action = "HEAD" =>
      IF req[r].pc # "done" THEN out[r] = << >>
      ELSE /\ Len(out[r]) = 1
           /\ IF req[r].route = "loadError"
              THEN /\ out[r][1].action = "RECORD_LOAD_ERROR"
                   /\ out[r][1].originalAction = "HEAD"
                   /\ Count(r, "HEAD_RESPONSE") = 0
              ELSE /\ out[r][1].action = "HEAD_RESPONSE"
                   /\ req[r].record = NoRecord => out[r][1].version = -1
                   /\ req[r].record # NoRecord =>
                        (out[r][1].version = req[r].record._v
                           /\ out[r][1].version >= 0)

C16_Witness ==
  \E r \in Requests :
    /\ req[r].action = "HEAD" /\ req[r].pc = "done"
    /\ req[r].route = "loadError"
    /\ cache[req[r].name] # NoRecord
    /\ out[r] = <<Sent("RECORD_LOAD_ERROR", "HEAD", None, None, None)>>

\* C17: a SUBSCRIBE_CREATE_AND_READ that creates its record calls create
\* after the CREATE check was allowed, starts the READ check after the
\* cache set succeeded, and subscribes and sends READ_RESPONSE (version 0,
\* empty data) together, after the READ check was allowed.  When the cache
\* set failed the sender has RECORD_CREATE_ERROR, no subscription and no
\* READ_RESPONSE.  The answer of the storage plays no part.
C17_CreateThenReadAndSubscribe ==
  \A r \in Requests :
    (req[r].action = "SUBSCRIBECREATEANDREAD" /\ req[r].write = "create") =>
      LET checks == req[r].checks
          n == Len(checks)
          cacheFailed == ~req[r].cachePending /\ req[r].cacheError # NoError
          cacheDone == ~req[r].cachePending /\ req[r].cacheError = NoError
      IN /\ n \in {1, 2}
         /\ checks[1].action = "CREATE" /\ Granted(checks[1])
         /\ n = 2 => (checks[2].action = "READ" /\ cacheDone)
         /\ req[r].subscribed <=> (n = 2 /\ Granted(checks[2]))
         /\ req[r].subscribed <=> Count(r, "READ_RESPONSE") = 1
         /\ req[r].subscribed =>
              out[r] = <<sendRecord([_v |-> 0, _d |-> EmptyData])>>
         /\ cacheFailed =>
              /\ req[r].pc = "done" /\ n = 1
              /\ out[r] = <<Sent("RECORD_CREATE_ERROR",
                                  "SUBSCRIBECREATEANDREAD", None, None, None)>>

C17_Witness ==
  \E r \in Requests :
    /\ req[r].action = "SUBSCRIBECREATEANDREAD" /\ req[r].write = "create"
    /\ req[r].storageError = "storageError"
    /\ req[r].subscribed /\ <<req[r].name, req[r].sender>> \in subs
    /\ Count(r, "READ_RESPONSE") = 1

\* The table entry x is the queue q.
IsQueue(x, q) == x # NoQueue /\ x = q

\* Callback c is handed to runWhenRecordStable in this step.
RunCall(c) == cb[c].state = "new" /\ cb'[c].state # "new"

C21_AddsOnlyToRegisteredTransition ==
  [][/\ \A t \in Requests :
          Len(trans'[t].steps) > Len(trans[t].steps)
            => transitions'[trans'[t].name] = t
     /\ \A n \in Names :
          (transitions[n] # NoTransition /\ transitions'[n] = NoTransition)
            => \A t \in Requests :
                 trans'[t] # trans[t] => t = transitions[n]
    ]_vars

=============================================================================
